---- MODULE Spec2Model ----
(***************************************************************************)
(* Model of aptos/scripts/utils/aptos_brownie.py: the ABI descriptor       *)
(* decoder (ArgumentABI, EntryFunctionABI), the vector TypedValue classes, *)
(* the descriptor registry built by AptosPackage.compile and the argument  *)
(* binding done by submit_bcs_transaction / custom_submit_transaction.     *)
(*                                                                         *)
(* Byte strings are sequences of numbers 0..255; Python str values that    *)
(* come out of the decoder are kept as the sequence of their (ASCII)       *)
(* bytes.  A reader result is [ok, val, pos]: ok = FALSE stands for the    *)
(* exception the Python code raises, pos is the deserializer offset.       *)
(***************************************************************************)
EXTENDS Integers, Sequences, FiniteSets, TLC

VARIABLES
    abis,     \* self.abis: registry, key -> EntryFunctionABI
    last,     \* the operation that has just run: its inputs, what it printed,
              \* what it raised or returned (Idle between operations)
    input     \* the value handed to the codec operations (SpecCodec only)

vars == <<abis, last, input>>

----------------------------------------------------------------------------
(* Bounds of the exploration *)

MaxFiles == 2       \* entries listed under build/<pkg>/abis in one scan
MaxVecLen == 2      \* elements of a vector TypedValue
MaxDisc == 8        \* largest type discriminant byte fed to the decoder
MaxTail == 3        \* bytes after the name in an argument record
MaxSupplied == 3    \* positional plus named values supplied to one call
MaxTyArgs == 1      \* type arguments supplied to one call
MaxExtraPending == 1  \* "pending" answers beyond the 20 the wait loop tolerates

(* aptos_sdk constants used by the code *)
ADDRESS_LENGTH == 32

\* wait_for_transaction: "assert count < 20"
WAIT_LIMIT == 20

TypeTagEnum ==
    [BOOL |-> 0, U8 |-> 1, U64 |-> 2, U128 |-> 3, ACCOUNT_ADDRESS |-> 4,
     SIGNER |-> 5, VECTOR |-> 6, STRUCT |-> 7]

----------------------------------------------------------------------------
(* aptos_sdk.bcs.Deserializer, as the code uses it *)

Raise == [ok |-> FALSE, val |-> <<>>, pos |-> 0]
Ret(v, p) == [ok |-> TRUE, val |-> v, pos |-> p]

\* Only({e : r \in {x}}) is "r = x; e": x is computed once and r names its value
Only(S) == CHOOSE x \in S : TRUE

\* Deserializer._read(n): raises on a short read
read(buf, pos, n) ==
    IF pos + n <= Len(buf)
    THEN Ret(SubSeq(buf, pos + 1, pos + n), pos + n)
    ELSE Raise

\* Deserializer.u8()
u8(buf, pos) ==
    Only({IF r.ok THEN Ret(r.val[1], r.pos) ELSE Raise : r \in {read(buf, pos, 1)}})

\* Deserializer.uleb128(): base-128 groups, low group first, high bit =
\* continuation.  Groups beyond the fourth do not occur within the bounds
\* and are treated as the "too large" error.
RECURSIVE uleb128_loop(_, _, _, _)
uleb128_loop(buf, pos, value, mult) ==
    Only({IF ~r.ok THEN Raise
          ELSE IF r.val < 128 THEN Ret(value + (r.val % 128) * mult, r.pos)
          ELSE IF mult >= 128 * 128 * 128 THEN Raise
          ELSE uleb128_loop(buf, r.pos, value + (r.val % 128) * mult, mult * 128)
          : r \in {u8(buf, pos)}})

uleb128(buf, pos) == uleb128_loop(buf, pos, 0, 1)

\* Deserializer.str(): uleb128 length, that many bytes, decoded as UTF-8
\* (only ASCII is modelled: a byte >= 128 is an invalid encoding)
str(buf, pos) ==
    Only({IF ~n.ok THEN Raise
          ELSE Only({IF r.ok /\ \A i \in 1..Len(r.val) : r.val[i] < 128 THEN r ELSE Raise
                     : r \in {read(buf, n.pos, n.val)}})
          : n \in {uleb128(buf, pos)}})

\* Serializer.uleb128 / Serializer.str / fixed-width little-endian integers
RECURSIVE uleb128_bytes(_)
uleb128_bytes(n) ==
    IF n < 128 THEN <<n>> ELSE <<128 + (n % 128)>> \o uleb128_bytes(n \div 128)

str_bytes(s) == uleb128_bytes(Len(s)) \o s

RECURSIVE le_bytes(_, _)
le_bytes(n, width) ==
    IF width = 0 THEN <<>> ELSE <<n % 256>> \o le_bytes(n \div 256, width - 1)

RECURSIVE le_value(_)
le_value(bs) ==
    IF bs = <<>> THEN 0 ELSE bs[1] + 256 * le_value(Tail(bs))

RECURSIVE Flatten(_)
Flatten(ss) == IF ss = <<>> THEN <<>> ELSE ss[1] \o Flatten(Tail(ss))

----------------------------------------------------------------------------
(* ArgumentABI *)

ScalarTags == {"BoolTag", "U8Tag", "U64Tag", "U128Tag", "AccountAddressTag", "StructTag"}
VectorTags == {"VectorBoolTag", "VectorU8Tag", "VectorU64Tag", "VectorU128Tag",
               "VectorAccountAddressTag", "VectorStructTag"}

\* ArgumentABI.get_tag(variant): the type class, or NotImplementedError
get_tag_signer_as_address(variant) ==
    IF variant = TypeTagEnum.BOOL THEN Ret("BoolTag", 0)
    ELSE IF variant = TypeTagEnum.U8 THEN Ret("U8Tag", 0)
    ELSE IF variant = TypeTagEnum.U64 THEN Ret("U64Tag", 0)
    ELSE IF variant = TypeTagEnum.U128 THEN Ret("U128Tag", 0)
    ELSE IF variant = TypeTagEnum.ACCOUNT_ADDRESS THEN Ret("AccountAddressTag", 0)
    ELSE IF variant = TypeTagEnum.SIGNER THEN Ret("AccountAddressTag", 0)
    ELSE IF variant = TypeTagEnum.VECTOR THEN Ret("VectorTag", 0)
    ELSE IF variant = TypeTagEnum.STRUCT THEN Ret("StructTag", 0)
    ELSE Raise

get_tag(variant) ==
    IF variant = TypeTagEnum.BOOL THEN Ret("BoolTag", 0)
    ELSE IF variant = TypeTagEnum.U8 THEN Ret("U8Tag", 0)
    ELSE IF variant = TypeTagEnum.U64 THEN Ret("U64Tag", 0)
    ELSE IF variant = TypeTagEnum.U128 THEN Ret("U128Tag", 0)
    ELSE IF variant = TypeTagEnum.ACCOUNT_ADDRESS THEN Ret("AccountAddressTag", 0)
    ELSE IF variant = TypeTagEnum.SIGNER THEN Raise
    ELSE IF variant = TypeTagEnum.VECTOR THEN Ret("VectorTag", 0)
    ELSE IF variant = TypeTagEnum.STRUCT THEN Ret("StructTag", 0)
    ELSE Raise

\* ArgumentABI.get_vector_tag(tag)
get_vector_tag(tag) ==
    IF tag = "BoolTag" THEN Ret("VectorBoolTag", 0)
    ELSE IF tag = "U8Tag" THEN Ret("VectorU8Tag", 0)
    ELSE IF tag = "U64Tag" THEN Ret("VectorU64Tag", 0)
    ELSE IF tag = "U128Tag" THEN Ret("VectorU128Tag", 0)
    ELSE IF tag = "AccountAddressTag" THEN Ret("VectorAccountAddressTag", 0)
    ELSE IF tag = "VectorTag" THEN Raise
    ELSE IF tag = "StructTag" THEN Ret("VectorStructTag", 0)
    ELSE Raise

\* ArgumentABI.deserialize(deserializer)
ArgumentABI_deserialize(buf, pos) ==
    Only({
    IF ~name.ok THEN Raise
    ELSE Only({
    IF ~variant.ok THEN Raise
    ELSE Only({
    IF ~type_tag.ok THEN Raise
    ELSE IF type_tag.val = "VectorTag"
    THEN Only({
         IF ~variant2.ok THEN Raise
         ELSE Only({
         IF ~inner.ok THEN Raise
         ELSE Only({
         IF ~vt.ok THEN Raise
         ELSE Ret([name |-> name.val, type_tag |-> vt.val], variant2.pos)
         : vt \in {get_vector_tag(inner.val)}})
         : inner \in {get_tag(variant2.val)}})
         : variant2 \in {uleb128(buf, variant.pos)}})
    ELSE Ret([name |-> name.val, type_tag |-> type_tag.val], variant.pos)
    : type_tag \in {get_tag(variant.val)}})
    : variant \in {uleb128(buf, name.pos)}})
    : name \in {str(buf, pos)}})

----------------------------------------------------------------------------
(* TypedValue: the aptos_sdk scalar tags and the VectorTag classes.        *)
(* A typed value is [variant, value]; an AccountAddress is its 32 bytes;   *)
(* a StructTag value is [address, module, name] (no generic arguments).    *)

Tag(variant, value) == [variant |-> variant, value |-> value]

ElementTag(vector_tag) ==
    CASE vector_tag = "VectorBoolTag" -> "BoolTag"
      [] vector_tag = "VectorU8Tag" -> "U8Tag"
      [] vector_tag = "VectorU64Tag" -> "U64Tag"
      [] vector_tag = "VectorU128Tag" -> "U128Tag"
      [] vector_tag = "VectorAccountAddressTag" -> "AccountAddressTag"
      [] vector_tag = "VectorStructTag" -> "StructTag"

\* <Scalar>Tag.serialize(serializer)
scalar_serialize(tv) ==
    CASE tv.variant = "BoolTag" -> IF tv.value THEN <<1>> ELSE <<0>>
      [] tv.variant = "U8Tag" -> <<tv.value>>
      [] tv.variant = "U64Tag" -> le_bytes(tv.value, 8)
      [] tv.variant = "U128Tag" -> le_bytes(tv.value, 16)
      [] tv.variant = "AccountAddressTag" -> tv.value
      [] tv.variant = "StructTag" ->
            tv.value.address \o str_bytes(tv.value.module)
                \o str_bytes(tv.value.name) \o uleb128_bytes(0)

\* <Scalar>Tag.deserialize(deserializer)
StructTag_deserialize(buf, pos) ==
    Only({
    IF ~a.ok THEN Raise
    ELSE Only({
    IF ~m.ok THEN Raise
    ELSE Only({
    IF ~n.ok THEN Raise
    ELSE Only({
    \* generic type arguments are not modelled: a non-zero count does not
    \* occur for the values within the bounds
    IF ~c.ok \/ c.val # 0 THEN Raise
    ELSE Ret(Tag("StructTag", [address |-> a.val, module |-> m.val, name |-> n.val]),
             c.pos)
    : c \in {uleb128(buf, n.pos)}})
    : n \in {str(buf, m.pos)}})
    : m \in {str(buf, a.pos)}})
    : a \in {read(buf, pos, ADDRESS_LENGTH)}})

scalar_deserialize(variant, buf, pos) ==
    CASE variant = "BoolTag" ->
            Only({IF r.ok /\ r.val \in {0, 1} THEN Ret(Tag("BoolTag", r.val = 1), r.pos)
                  ELSE Raise : r \in {u8(buf, pos)}})
      [] variant = "U8Tag" ->
            Only({IF r.ok THEN Ret(Tag("U8Tag", r.val), r.pos) ELSE Raise
                  : r \in {u8(buf, pos)}})
      [] variant = "U64Tag" ->
            Only({IF r.ok THEN Ret(Tag("U64Tag", le_value(r.val)), r.pos) ELSE Raise
                  : r \in {read(buf, pos, 8)}})
      [] variant = "U128Tag" ->
            Only({IF r.ok THEN Ret(Tag("U128Tag", le_value(r.val)), r.pos) ELSE Raise
                  : r \in {read(buf, pos, 16)}})
      [] variant = "AccountAddressTag" ->
            Only({IF r.ok THEN Ret(Tag("AccountAddressTag", r.val), r.pos) ELSE Raise
                  : r \in {read(buf, pos, ADDRESS_LENGTH)}})
      [] variant = "StructTag" -> StructTag_deserialize(buf, pos)

\* The value_decoder handed to Deserializer.sequence
decode_one(decoder, buf, pos) ==
    CASE decoder = "str" -> str(buf, pos)
      [] decoder = "ArgumentABI" -> ArgumentABI_deserialize(buf, pos)
      [] OTHER -> scalar_deserialize(decoder, buf, pos)

\* Deserializer.sequence(value_decoder): uleb128 count, then that many values
RECURSIVE sequence_loop(_, _, _, _, _)
sequence_loop(decoder, buf, pos, length, values) ==
    IF Len(values) >= length THEN Ret(values, pos)
    ELSE Only({IF ~r.ok THEN Raise
               ELSE sequence_loop(decoder, buf, r.pos, length, Append(values, r.val))
               : r \in {decode_one(decoder, buf, pos)}})

sequence(decoder, buf, pos) ==
    Only({IF ~length.ok THEN Raise
          ELSE sequence_loop(decoder, buf, length.pos, length.val, <<>>)
          : length \in {uleb128(buf, pos)}})

\* VectorTag.serialize: serializer.sequence(self.value, Serializer.struct)
VectorTag_serialize(tv) ==
    uleb128_bytes(Len(tv.value))
        \o Flatten([i \in 1..Len(tv.value) |-> scalar_serialize(tv.value[i])])

serialize(tv) ==
    IF tv.variant \in VectorTags THEN VectorTag_serialize(tv) ELSE scalar_serialize(tv)

\* Vector<T>Tag.deserialize: "return deserializer.sequence(<T>Tag.deserialize)",
\* i.e. the plain Python list the sequence reader builds
VectorTag_deserialize(vector_tag, buf, pos) ==
    Only({IF r.ok THEN Ret(Tag("list", r.val), r.pos) ELSE Raise
          : r \in {sequence(ElementTag(vector_tag), buf, pos)}})

deserialize(variant, buf, pos) ==
    IF variant \in VectorTags THEN VectorTag_deserialize(variant, buf, pos)
    ELSE scalar_deserialize(variant, buf, pos)

----------------------------------------------------------------------------
(* EntryFunctionABI *)

\* ModuleId.deserialize: AccountAddress (fixed 32 bytes), then the name
ModuleId_deserialize(buf, pos) ==
    Only({
    IF ~a.ok THEN Raise
    ELSE Only({
    IF ~n.ok THEN Raise
    ELSE Ret([address |-> a.val, name |-> n.val], n.pos)
    : n \in {str(buf, a.pos)}})
    : a \in {read(buf, pos, ADDRESS_LENGTH)}})

\* EntryFunctionABI.deserialize(Deserializer(data))
EntryFunctionABI_deserialize(data) ==
    Only({Only({
    IF ~version.ok THEN Raise
    ELSE Only({
    IF ~name.ok THEN Raise
    ELSE Only({
    IF ~module.ok THEN Raise
    ELSE Only({
    IF ~doc.ok THEN Raise
    ELSE Only({
    IF ~ty_args.ok THEN Raise
    ELSE Only({
    IF ~args.ok THEN Raise
    ELSE Ret([name |-> name.val, module |-> module.val, doc |-> doc.val,
              ty_args |-> ty_args.val, args |-> args.val], args.pos)
    : args \in {sequence("ArgumentABI", buf, ty_args.pos)}})
    : ty_args \in {sequence("str", buf, doc.pos)}})
    : doc \in {str(buf, module.pos)}})
    : module \in {ModuleId_deserialize(buf, name.pos)}})
    : name \in {str(buf, version.pos)}})
    : version \in {u8(buf, 0)}})
    : buf \in {data}})

\* "::" 
ColonColon == <<58, 58>>

\* EntryFunctionABI.key(): f"{self.module.name}::{self.name}"
key_with_address(abi) ==
    abi.module.address \o ColonColon \o abi.module.name \o ColonColon \o abi.name

key(abi) == abi.module.name \o ColonColon \o abi.name

----------------------------------------------------------------------------
(* The descriptor files the compiler leaves under build/<package>/abis.    *)
(* Names are ASCII byte strings: "f" = <<102>>, "m" = <<109>>, ...         *)

Address(n) == [i \in 1..ADDRESS_LENGTH |-> IF i = ADDRESS_LENGTH THEN n ELSE 0]

Arg(name, type_tag) == [name |-> name, type_tag |-> type_tag]

\* 0x1::m::f()
AbiF ==
    [name |-> <<102>>, module |-> [address |-> Address(1), name |-> <<109>>],
     doc |-> <<>>, ty_args |-> <<>>, args |-> <<>>]
\* 0x1::m::g<T>(a: u8, b: struct)
AbiG ==
    [name |-> <<103>>, module |-> [address |-> Address(1), name |-> <<109>>],
     doc |-> <<100>>, ty_args |-> << <<84>> >>,
     args |-> <<Arg(<<97>>, "U8Tag"), Arg(<<98>>, "StructTag")>>]
\* 0x2::m::f(a: vector<u8>): same module and function name as AbiF
AbiF2 ==
    [name |-> <<102>>, module |-> [address |-> Address(2), name |-> <<109>>],
     doc |-> <<>>, ty_args |-> <<>>, args |-> <<Arg(<<97>>, "VectorU8Tag")>>]
\* 0x1::m::h(s: signer, a: u8): a signer parameter, which the decoder rejects
AbiH ==
    [name |-> <<104>>, module |-> [address |-> Address(1), name |-> <<109>>],
     doc |-> <<>>, ty_args |-> <<>>,
     args |-> <<Arg(<<115>>, "SignerTag"), Arg(<<97>>, "U8Tag")>>]

Supported(abi) ==
    \A i \in 1..Len(abi.args) : abi.args[i].type_tag \in ScalarTags \cup VectorTags

\* The discriminant bytes of a parameter type, as ArgumentABI.deserialize reads them
type_bytes(type_tag) ==
    CASE type_tag = "BoolTag" -> <<TypeTagEnum.BOOL>>
      [] type_tag = "U8Tag" -> <<TypeTagEnum.U8>>
      [] type_tag = "U64Tag" -> <<TypeTagEnum.U64>>
      [] type_tag = "U128Tag" -> <<TypeTagEnum.U128>>
      [] type_tag = "AccountAddressTag" -> <<TypeTagEnum.ACCOUNT_ADDRESS>>
      [] type_tag = "SignerTag" -> <<TypeTagEnum.SIGNER>>
      [] type_tag = "StructTag" -> <<TypeTagEnum.STRUCT>>
      [] type_tag \in VectorTags ->
            <<TypeTagEnum.VECTOR>> \o
            (CASE ElementTag(type_tag) = "BoolTag" -> <<TypeTagEnum.BOOL>>
               [] ElementTag(type_tag) = "U8Tag" -> <<TypeTagEnum.U8>>
               [] ElementTag(type_tag) = "U64Tag" -> <<TypeTagEnum.U64>>
               [] ElementTag(type_tag) = "U128Tag" -> <<TypeTagEnum.U128>>
               [] ElementTag(type_tag) = "AccountAddressTag" -> <<TypeTagEnum.ACCOUNT_ADDRESS>>
               [] ElementTag(type_tag) = "StructTag" -> <<TypeTagEnum.STRUCT>>)

\* The record layout EntryFunctionABI.deserialize reads: tag byte, name,
\* module id, doc, type parameters, arguments
abi_bytes(abi) ==
    <<1>> \o str_bytes(abi.name)
        \o abi.module.address \o str_bytes(abi.module.name)
        \o str_bytes(abi.doc)
        \o uleb128_bytes(Len(abi.ty_args))
        \o Flatten([i \in 1..Len(abi.ty_args) |-> str_bytes(abi.ty_args[i])])
        \o uleb128_bytes(Len(abi.args))
        \o Flatten([i \in 1..Len(abi.args) |->
                      str_bytes(abi.args[i].name) \o type_bytes(abi.args[i].type_tag)])

Abis == {AbiF, AbiG, AbiF2, AbiH}

FullLen(abi) == Len(abi_bytes(abi))

MaxAbiLen == CHOOSE n \in {FullLen(a) : a \in Abis} : \A a \in Abis : FullLen(a) <= n

\* One entry of the listing: the subdirectory entry v1 (dir, is_dir), the
\* file v2 in it (stem.ext), and what was written to it: the first `cut`
\* bytes of the record of `abi`.
AbiFile(abi, cut) ==
    [dir |-> "m", is_dir |-> TRUE, stem |-> abi.name, ext |-> "abi",
     abi |-> abi, cut |-> cut]

WholeFiles == {AbiFile(a, FullLen(a)) : a \in Abis}

\* every file cut short after `cut` bytes (at least one byte is lost)
CutFiles(cut) ==
    {AbiFile(a, IF cut < FullLen(a) THEN cut ELSE FullLen(a) - 1) : a \in Abis}

\* build/<package>/abis/m/f.mv (wrong extension), build/<package>/abis/README
\* (a plain file where module subdirectories are expected)
OtherFiles ==
    {[dir |-> "m", is_dir |-> TRUE, stem |-> <<102>>, ext |-> "mv",
      abi |-> AbiF, cut |-> FullLen(AbiF)],
     [dir |-> "README", is_dir |-> FALSE, stem |-> <<>>, ext |-> "",
      abi |-> AbiF, cut |-> 0]}

file_data(file) == SubSeq(abi_bytes(file.abi), 1, file.cut)

SeqsUpTo(S, n) == UNION {[1..k -> S] : k \in 0..n}

Tree(exists, files) == [exists |-> exists, files |-> files]

\* the trees a scan may meet: no abis directory, or up to MaxFiles entries
IntactTrees ==
    {Tree(FALSE, <<>>)} \cup
    {Tree(TRUE, fs) : fs \in SeqsUpTo(WholeFiles \cup OtherFiles, MaxFiles)}

\* ... some of them damaged (cut at the same offset)
DamagedTrees(cut) ==
    {Tree(TRUE, fs) : fs \in
        {s \in SeqsUpTo(WholeFiles \cup CutFiles(cut) \cup OtherFiles, MaxFiles) :
            \E i \in 1..Len(s) : s[i] \in CutFiles(cut)}}

----------------------------------------------------------------------------
(* AptosPackage.compile *)

EmptyAbis == <<>>

Put(reg, k, v) == [x \in DOMAIN reg \cup {k} |-> IF x = k THEN v ELSE reg[x]]

\* "self.abis = {}" before the scan
abis_kept(old) == old

abis_reset(old) == EmptyAbis

\* The body of the inner loop for one listed file: st = [abis, diag, raised]
scan_file_no_except(file, st) ==
    IF ~file.is_dir \/ file.ext # "abi" THEN st
    ELSE Only({IF abi.ok
               THEN [st EXCEPT !.abis = Put(st.abis, key(abi.val), abi.val)]
               ELSE [st EXCEPT !.raised = TRUE]
               : abi \in {EntryFunctionABI_deserialize(file_data(file))}})

scan_file(file, st) ==
    IF ~file.is_dir \/ file.ext # "abi" THEN st
    ELSE Only({IF abi.ok
               THEN [st EXCEPT !.abis = Put(st.abis, key(abi.val), abi.val)]
               ELSE [st EXCEPT !.diag =
                        Append(st.diag, [stem |-> file.stem, ext |-> file.ext])]
               : abi \in {EntryFunctionABI_deserialize(file_data(file))}})

RECURSIVE scan_loop(_, _)
scan_loop(files, st) ==
    IF files = <<>> \/ st.raised THEN st
    ELSE Only({scan_loop(Tail(files), st1) : st1 \in {scan_file(Head(files), st)}})

\* lines 309-327: the "Abis" section
scan(tree, old) ==
    LET st0 == [abis |-> abis_reset(old), diag |-> <<>>, raised |-> FALSE] IN
    IF tree.exists THEN scan_loop(tree.files, st0) ELSE st0

Idle == [op |-> "idle"]

\* compile(): build_ok = FALSE is a build directory without
\* package-metadata.bcs or bytecode_modules, which raises before the scan.
\* last records the listing read, what was printed ("Decode <file> fail",
\* one entry per line) and the keys registered before that are gone after.
compile(tree, build_ok) ==
    /\ last = Idle
    /\ IF ~build_ok
       THEN /\ abis' = abis
            /\ last' = [op |-> "compile", scanned |-> FALSE, tree |-> Tree(FALSE, <<>>),
                        status |-> "raised", diag |-> <<>>, dropped |-> {}]
       ELSE \E st \in {scan(tree, abis)} :
            /\ abis' = st.abis
            /\ last' = [op |-> "compile", scanned |-> TRUE, tree |-> tree,
                        status |-> IF st.raised THEN "raised" ELSE "completed",
                        diag |-> st.diag,
                        dropped |-> (DOMAIN abis) \ (DOMAIN st.abis)]
    /\ UNCHANGED input

----------------------------------------------------------------------------
(* Values a caller supplies, and their coercion to a TypedValue.           *)
(* A Python value is [kind, val].  The scalar constructors and             *)
(* StructTag.from_str belong to aptos_sdk; they are modelled by the        *)
(* values they accept, and raise for the others.                           *)

\* 7, "0x1::m::S", [1, 2]; val is the digits / characters / elements
RawInt == [kind |-> "int", val |-> <<7>>]
RawStr == [kind |-> "str", val |-> <<48, 120, 49, 58, 58, 109, 58, 58, 83>>]
RawList == [kind |-> "list", val |-> <<1, 2>>]

Raws == {RawInt, RawStr, RawList}

\* str.split("::")
RECURSIVE split(_, _, _)
split(s, i, part) ==
    IF i > Len(s) THEN <<part>>
    ELSE IF i < Len(s) /\ s[i] = 58 /\ s[i + 1] = 58
    THEN <<part>> \o split(s, i + 2, <<>>)
    ELSE split(s, i + 1, Append(part, s[i]))

HexDigit(c) ==
    IF c \in 48..57 THEN c - 48
    ELSE IF c \in 97..102 THEN c - 87
    ELSE IF c \in 65..70 THEN c - 55
    ELSE 16

\* AccountAddress.from_hex: optional "0x", hex digits, zero-padded on the left
from_hex(h) ==
    LET digits == IF Len(h) >= 2 /\ h[1] = 48 /\ h[2] = 120
                  THEN SubSeq(h, 3, Len(h)) ELSE h
        n == Len(digits)
        nibble(k) == \* k-th of the 2 * ADDRESS_LENGTH nibbles
            IF k <= 2 * ADDRESS_LENGTH - n THEN 0
            ELSE HexDigit(digits[k - (2 * ADDRESS_LENGTH - n)])
    IN  IF n = 0 \/ n > 2 * ADDRESS_LENGTH
           \/ \E i \in 1..n : HexDigit(digits[i]) = 16
        THEN Raise
        ELSE Ret([i \in 1..ADDRESS_LENGTH |-> 16 * nibble(2 * i - 1) + nibble(2 * i)], 0)

\* StructTag.from_str(s): "address::module::name"
StructTag_from_str(v) ==
    IF v.kind # "str" THEN Raise
    ELSE LET parts == split(v.val, 1, <<>>) IN
         IF Len(parts) # 3 THEN Raise
         ELSE LET a == from_hex(parts[1]) IN
              IF ~a.ok THEN Raise
              ELSE Ret(Tag("StructTag",
                           [address |-> a.val, module |-> parts[2], name |-> parts[3]]), 0)

\* BoolTag(v), U8Tag(v), U64Tag(v), U128Tag(v), AccountAddressTag(v)
scalar_construct(type_tag, v) ==
    CASE type_tag = "StructTag" -> StructTag_from_str(v)
      [] type_tag = "BoolTag" ->
            IF v.kind = "bool" THEN Ret(Tag(type_tag, v.val[1] = 1), 0) ELSE Raise
      [] type_tag = "U8Tag" ->
            IF v.kind = "int" /\ v.val[1] \in 0..255 THEN Ret(Tag(type_tag, v.val[1]), 0) ELSE Raise
      [] type_tag \in {"U64Tag", "U128Tag"} ->
            IF v.kind = "int" /\ v.val[1] >= 0 THEN Ret(Tag(type_tag, v.val[1]), 0) ELSE Raise
      [] type_tag = "AccountAddressTag" ->
            IF v.kind = "address" THEN Ret(Tag(type_tag, v.val), 0) ELSE Raise

\* Vector<T>Tag.__init__(value): list(value), then [<T>Tag(v) for v in value]
\* (StructTag.from_str(v) for VectorStructTag)
VectorTag_init(vector_tag, v) ==
    IF v.kind # "list" THEN Raise
    ELSE LET elems == [i \in 1..Len(v.val) |->
                          scalar_construct(ElementTag(vector_tag),
                                           [kind |-> "int", val |-> <<v.val[i]>>])] IN
         IF \A i \in 1..Len(elems) : elems[i].ok
         THEN Ret(Tag(vector_tag, [i \in 1..Len(elems) |-> elems[i].val]), 0)
         ELSE Raise

\* function_arg.type_tag(raw), or StructTag.from_str(raw) for a StructTag
construct(type_tag, v) ==
    IF type_tag \in VectorTags THEN VectorTag_init(type_tag, v)
    ELSE scalar_construct(type_tag, v)

\* "0x" + str(bytes(value).hex()): bytes() raises unless every element is in 0..255
hex_of_list(v) ==
    IF \A i \in 1..Len(v.val) : v.val[i] \in 0..255
    THEN Ret([kind |-> "hex", val |-> v.val], 0)
    ELSE Raise

----------------------------------------------------------------------------
(* The binding loops of submit_bcs_transaction / custom_submit_transaction *)
(* st = [error, param, events, normal_args]                                *)

Event(e, name) == [e |-> e, name |-> name]

Failed(st, error, name) == [st EXCEPT !.error = error, !.param = name]

\* normal_args.append({"value": value, "abi": function_arg})
Bound_prepend(st, function_arg, value) ==
    [st EXCEPT !.normal_args = <<[value |-> value, abi |-> function_arg]>> \o @]

Bound(st, function_arg, value) ==
    [st EXCEPT !.normal_args = Append(@, [value |-> value, abi |-> function_arg])]

Log(st, e, name) == [st EXCEPT !.events = Append(@, Event(e, name))]

\* the "if len(kwargs):" branch, one iteration (the same text in both methods)
named_step(function_arg, kwargs, st) ==
    LET st1 == Log(st, "check_name", function_arg.name) IN
    IF function_arg.name \notin DOMAIN kwargs
    THEN Failed(st1, "Param not found", function_arg.name)
    ELSE LET st2 == Log(st1, "coerce", function_arg.name)
             v == construct(function_arg.type_tag, kwargs[function_arg.name]) IN
         IF ~v.ok THEN Failed(st2, "coerce", function_arg.name)
         ELSE Bound(st2, function_arg, v.val)

\* the "else:" branch of submit_bcs_transaction, one iteration
positional_step(abi_args, args, i, st) ==
    LET function_arg == abi_args[i]
        st1 == Log(st, "coerce", function_arg.name) IN
    IF i > Len(args) THEN Failed(st1, "IndexError", function_arg.name)
    ELSE LET v == construct(function_arg.type_tag, args[i]) IN
         IF ~v.ok THEN Failed(st1, "coerce", function_arg.name)
         ELSE Bound(st1, function_arg, v.val)

\* the "else:" branch of custom_submit_transaction, one iteration: the
\* value is checked by constructing the tag, and the raw value is kept
\* (a list as a hex string)
custom_positional_step(abi_args, args, i, st) ==
    LET function_arg == abi_args[i]
        st1 == Log(st, "coerce", function_arg.name) IN
    IF i > Len(args) THEN Failed(st1, "IndexError", function_arg.name)
    ELSE LET v == construct(function_arg.type_tag, args[i]) IN
         IF ~v.ok THEN Failed(st1, "coerce", function_arg.name)
         ELSE IF function_arg.type_tag # "StructTag" /\ args[i].kind = "list"
         THEN LET h == hex_of_list(args[i]) IN
              IF ~h.ok THEN Failed(st1, "coerce", function_arg.name)
              ELSE Bound(st1, function_arg, h.val)
         ELSE Bound(st1, function_arg, args[i])

RECURSIVE bind_loop(_, _, _, _, _, _)
bind_loop(method, abi_args, args, kwargs, i, st) ==
    IF i > Len(abi_args) \/ st.error # "none" THEN st
    ELSE bind_loop(method, abi_args, args, kwargs, i + 1,
            IF Cardinality(DOMAIN kwargs) > 0
            THEN named_step(abi_args[i], kwargs, st)
            ELSE IF method = "submit_bcs_transaction"
            THEN positional_step(abi_args, args, i, st)
            ELSE custom_positional_step(abi_args, args, i, st))

\* "assert len(args) == len(abi.args) or len(kwargs) == len(abi.args)"
args_assert(abi, args, kwargs) ==
    Len(args) = Len(abi.args) \/ Cardinality(DOMAIN kwargs) = Len(abi.args)

\* "assert ... len(abi.ty_args) == len(ty_args)"
ty_args_assert(abi, ty_args) == Len(abi.ty_args) = Len(ty_args)

\* lines 370-405 / 471-508: the two asserts, then the loop
bind(method, abi, args, kwargs, ty_args) ==
    LET st0 == [error |-> "none", param |-> <<>>, events |-> <<>>, normal_args |-> <<>>]
        st1 == Log(st0, "check_ty_args", <<>>) IN
    IF ~ty_args_assert(abi, ty_args) THEN Failed(st1, "ty_args error", <<>>)
    ELSE LET st2 == Log(st1, "check_args", <<>>) IN
    IF ~args_assert(abi, args, kwargs) THEN Failed(st2, "args error", <<>>)
    ELSE bind_loop(method, abi.args, args, kwargs, 1, st2)

----------------------------------------------------------------------------
(* wait_for_transaction and the network collaborator *)

\* the node answers "pending" to the first `pending` polls; the transaction
\* fetched afterwards carries success
RECURSIVE wait_loop(_, _, _)
wait_loop(pending, success, count) ==
    IF pending > 0
    THEN IF count < WAIT_LIMIT
         THEN wait_loop(pending - 1, success, count + 1)
         ELSE [error |-> "timed out", polls |-> count + 1, sleeps |-> count,
               fetched |-> FALSE, returned |-> FALSE, success |-> FALSE]
    ELSE [error |-> IF success THEN "none" ELSE "not success",
          polls |-> count + 1, sleeps |-> count,
          fetched |-> TRUE, returned |-> success, success |-> success]

wait_result(pending, success) == wait_loop(pending, success, 0)

Pendings == 0..(WAIT_LIMIT + MaxExtraPending)

\* what the node does to one submission: the request that is refused with
\* an ApiError ("none": all accepted), then the answers to the polls
Nets ==
    {[refused |-> r, pending |-> 0, success |-> TRUE] :
        r \in {"sequence_number", "encode_submission", "submit"}}
    \cup {[refused |-> "none", pending |-> p, success |-> s] :
            p \in Pendings, s \in BOOLEAN}

\* the strings a caller passes as ty_args: "0x1::m::S", and "m", which
\* StructTag.from_str does not parse
TyStrings == {RawStr.val, <<109>>}

ty_tags(ty_args) ==
    LET tags == [i \in 1..Len(ty_args) |->
                    StructTag_from_str([kind |-> "str", val |-> ty_args[i]])] IN
    IF \A i \in 1..Len(tags) : tags[i].ok
    THEN Ret([i \in 1..Len(tags) |-> tags[i].val], 0) ELSE Raise

\* EntryFunction.natural(module, name, ty_args, [TransactionArgument(value,
\* Serializer.struct)]): the arguments are encoded in list order
bcs_payload(abi, tags, normal_args) ==
    [module |-> abi.module, function |-> abi.name, ty_args |-> tags,
     args |-> [i \in 1..Len(normal_args) |-> serialize(normal_args[i].value)]]

\* the entry_function_payload dict of custom_submit_transaction
custom_payload(abi, ty_args, normal_args) ==
    [module |-> abi.module, function |-> abi.name, ty_args |-> ty_args,
     args |-> [i \in 1..Len(normal_args) |-> normal_args[i].value]]

NoPayload == [module |-> <<>>]

\* client.post(url, json=txn_request) encodes the request as JSON before
\* sending it: the raw values of the positional branch (numbers, strings)
\* encode, the tag objects of the named branch do not (TypeError)
json_serializable(payload) ==
    \A i \in 1..Len(payload.args) : "kind" \in DOMAIN payload.args[i]

\* The network part of a call whose payload was built: the requests made,
\* in order, and how the call ends.  encode_submission is requested by
\* submit_transaction only, after the sequence number was fetched.
submit_and_wait(method, payload, net) ==
    LET requests ==
            IF method = "submit_bcs_transaction"
            THEN <<"sequence_number", "submit">>
            ELSE <<"sequence_number", "encode_submission", "submit">>
        refused_at == {i \in 1..Len(requests) : requests[i] = net.refused}
    IN  IF net.refused = "sequence_number"
        THEN [error |-> "ApiError", requests |-> <<"sequence_number">>,
              submitted |-> 0]
        ELSE IF method = "custom_submit_transaction" /\ ~json_serializable(payload)
        THEN [error |-> "TypeError", requests |-> <<"sequence_number">>,
              submitted |-> 0]
        ELSE IF refused_at # {}
        THEN [error |-> "ApiError",
              requests |-> SubSeq(requests, 1, CHOOSE i \in refused_at : TRUE),
              submitted |-> 0]
        ELSE LET w == wait_result(net.pending, net.success) IN
             [error |-> w.error, requests |-> Append(requests, "wait"),
              submitted |-> 1]

Call(method, abi, args, kwargs, ty_args, st, payload, sent) ==
    [op |-> method, abi |-> abi, args |-> args, kwargs |-> kwargs,
     ty_args |-> ty_args, bound |-> (st.error = "none"),
     error |-> IF st.error # "none" THEN st.error ELSE sent.error,
     param |-> st.param, events |-> st.events, normal_args |-> st.normal_args,
     built |-> (payload # NoPayload), payload |-> payload,
     requests |-> sent.requests, submitted |-> sent.submitted]

NotSent_but_sequence_number(error) ==
    [error |-> error, requests |-> <<"sequence_number">>, submitted |-> 0]

\* the call raised before its first request
NotSent(error) == [error |-> error, requests |-> <<>>, submitted |-> 0]

\* submit_bcs_transaction(abi, *args, ty_args=..., **kwargs)
submit_bcs_transaction(abi, args, kwargs, ty_args) ==
    /\ last = Idle
    /\ LET st == bind("submit_bcs_transaction", abi, args, kwargs, ty_args)
           tags == ty_tags(ty_args) IN
       IF st.error # "none"
       THEN last' = Call("submit_bcs_transaction", abi, args, kwargs, ty_args,
                         st, NoPayload, NotSent(st.error))
       ELSE IF ~tags.ok
       THEN last' = Call("submit_bcs_transaction", abi, args, kwargs, ty_args,
                         st, NoPayload, NotSent("ty_args parse"))
       ELSE \E net \in Nets :
            \E payload \in {bcs_payload(abi, tags.val, st.normal_args)} :
            last' = Call("submit_bcs_transaction", abi, args, kwargs, ty_args, st,
                         payload,
                         submit_and_wait("submit_bcs_transaction", payload, net))
    /\ UNCHANGED <<abis, input>>

\* custom_submit_transaction(abi, *args, ty_args=..., **kwargs)
custom_submit_transaction(abi, args, kwargs, ty_args) ==
    /\ last = Idle
    /\ LET st == bind("custom_submit_transaction", abi, args, kwargs, ty_args) IN
       IF st.error # "none"
       THEN last' = Call("custom_submit_transaction", abi, args, kwargs, ty_args,
                         st, NoPayload, NotSent(st.error))
       ELSE \E net \in Nets :
            \E payload \in {custom_payload(abi, ty_args, st.normal_args)} :
            last' = Call("custom_submit_transaction", abi, args, kwargs, ty_args, st,
                         payload,
                         submit_and_wait("custom_submit_transaction", payload, net))
    /\ UNCHANGED <<abis, input>>

\* wait_for_transaction(txn_hash), called on its own
wait_for_transaction(pending, success) ==
    /\ last = Idle
    /\ last' = [op |-> "wait_for_transaction", pending |-> pending,
                result |-> wait_result(pending, success)]
    /\ UNCHANGED <<abis, input>>

\* __getitem__(key): the registered descriptor, bound to submit_bcs_transaction
getitem_pop(k) ==
    /\ last = Idle
    /\ last' = IF k \in DOMAIN abis
               THEN [op |-> "__getitem__", key |-> k, error |-> "none", abi |-> abis[k]]
               ELSE [op |-> "__getitem__", key |-> k, error |-> "key not found",
                     abi |-> <<>>]
    /\ abis' = [x \in (DOMAIN abis) \ {k} |-> abis[x]]
    /\ UNCHANGED input

getitem(k) ==
    /\ last = Idle
    /\ last' = IF k \in DOMAIN abis
               THEN [op |-> "__getitem__", key |-> k, error |-> "none", abi |-> abis[k]]
               ELSE [op |-> "__getitem__", key |-> k, error |-> "key not found",
                     abi |-> <<>>]
    /\ UNCHANGED <<abis, input>>

----------------------------------------------------------------------------
(* What callers supply *)

ArgNames == {<<97>>, <<98>>, <<122>>}

Kwargs == UNION {[names -> Raws] : names \in SUBSET ArgNames}

CallForms ==
    {f \in [args : SeqsUpTo(Raws, MaxSupplied), kwargs : Kwargs] :
        Len(f.args) + Cardinality(DOMAIN f.kwargs) <= MaxSupplied}

Keys == {key(a) : a \in Abis} \cup {<<122>>}

\* the operation has returned (or raised) to its caller
Return ==
    /\ last # Idle
    /\ last' = Idle
    /\ UNCHANGED <<abis, input>>

NoInput == [kind |-> "none"]

Init ==
    /\ abis = EmptyAbis
    /\ last = Idle
    /\ input = NoInput

Next ==
    \/ \E tree \in IntactTrees : \E build_ok \in BOOLEAN : compile(tree, build_ok)
    \/ \E cut \in 0..(MaxAbiLen - 1) : \E tree \in DamagedTrees(cut) : compile(tree, TRUE)
    \/ \E k \in Keys : getitem(k)
    \/ \E k \in DOMAIN abis : \E f \in CallForms :
       \E ty_args \in SeqsUpTo(TyStrings, MaxTyArgs) :
          submit_bcs_transaction(abis[k], f.args, f.kwargs, ty_args)
    \/ \E k \in DOMAIN abis : \E f \in CallForms :
       \E ty_args \in SeqsUpTo(TyStrings, MaxTyArgs) :
          custom_submit_transaction(abis[k], f.args, f.kwargs, ty_args)
    \/ \E pending \in Pendings : \E success \in BOOLEAN :
          wait_for_transaction(pending, success)
    \/ Return

Spec == Init /\ [][Next]_vars

----------------------------------------------------------------------------
(* SpecCodec: the decoders and encoders as pure functions of their input   *)

\* an argument record: the name "a", then up to MaxTail further bytes
\* (type discriminants, trailing bytes)
ArgRecords ==
    {str_bytes(<<97>>) \o tail : tail \in SeqsUpTo(0..MaxDisc, MaxTail)}

Elements(scalar_tag) ==
    CASE scalar_tag = "BoolTag" -> {Tag("BoolTag", FALSE), Tag("BoolTag", TRUE)}
      [] scalar_tag = "U8Tag" -> {Tag("U8Tag", 0), Tag("U8Tag", 255)}
      [] scalar_tag = "U64Tag" -> {Tag("U64Tag", 0), Tag("U64Tag", 2147483647)}
      [] scalar_tag = "U128Tag" -> {Tag("U128Tag", 0), Tag("U128Tag", 2147483647)}
      [] scalar_tag = "AccountAddressTag" ->
            {Tag("AccountAddressTag", [i \in 1..ADDRESS_LENGTH |-> 0]),
             Tag("AccountAddressTag", [i \in 1..ADDRESS_LENGTH |-> 255])}
      [] scalar_tag = "StructTag" ->
            {Tag("StructTag", [address |-> Address(1), module |-> <<109>>, name |-> <<83>>])}

Vectors(vector_tag) ==
    {Tag(vector_tag, elems) : elems \in SeqsUpTo(Elements(ElementTag(vector_tag)), MaxVecLen)}

InitCodec ==
    /\ abis = EmptyAbis
    /\ last = Idle
    /\ \/ \E data \in ArgRecords : input = [kind |-> "bytes", data |-> data]
       \/ \E t \in ScalarTags : \E tv \in Elements(t) : input = [kind |-> "value", tv |-> tv]
       \/ \E t \in VectorTags : \E tv \in Vectors(t) : input = [kind |-> "value", tv |-> tv]

\* ArgumentABI.deserialize(Deserializer(data))
deserialize_argument ==
    /\ last = Idle
    /\ input.kind = "bytes"
    /\ last' = [op |-> "ArgumentABI.deserialize",
                result |-> ArgumentABI_deserialize(input.data, 0)]
    /\ UNCHANGED <<abis, input>>

\* type(v).deserialize(Deserializer(bytes written by v.serialize))
round_trip ==
    /\ last = Idle
    /\ input.kind = "value"
    /\ \E data \in {serialize(input.tv)} :
         last' = [op |-> "round_trip", data |-> data,
                  result |-> deserialize(input.tv.variant, data, 0)]
    /\ UNCHANGED <<abis, input>>

NextCodec == deserialize_argument \/ round_trip

SpecCodec == InitCodec /\ [][NextCodec]_vars

----------------------------------------------------------------------------
(* SpecWait: wait_for_transaction step by step, one request or sleep per   *)
(* step, against a node that answers each request as it likes              *)

\* what rest_client.transaction_pending(txn_hash) does
PendingAnswers == {"pending", "settled", "ApiError"}

\* the transaction fetched by hash: success = true, success = false, or a
\* body without a success field
Responses == {"success", "failure", "no success"}

Waiting ==
    [op |-> "wait_for_transaction", pc |-> "poll", count |-> 0, polls |-> 0,
     sleeps |-> 0, answer |-> "none", fetched |-> FALSE, response |-> "none",
     returned |-> FALSE, error |-> "none"]

InitWait ==
    /\ abis = EmptyAbis
    /\ input = NoInput
    /\ last = Waiting

within_limit_inclusive(count) == count <= WAIT_LIMIT

\* assert count < 20
within_limit(count) == count < WAIT_LIMIT

\* while self.rest_client.transaction_pending(txn_hash): assert count < 20
transaction_pending(answer) ==
    /\ last.op = "wait_for_transaction"
    /\ last.pc = "poll"
    /\ last' = [last EXCEPT
                  !.polls = @ + 1,
                  !.answer = answer,
                  !.pc = CASE answer = "ApiError" -> "done"
                           [] answer = "settled" -> "fetch"
                           [] answer = "pending" ->
                                IF within_limit(last.count) THEN "sleep" ELSE "done",
                  !.error = CASE answer = "ApiError" -> "ApiError"
                              [] answer = "settled" -> "none"
                              [] answer = "pending" ->
                                   IF within_limit(last.count) THEN "none"
                                   ELSE "timed out"]
    /\ UNCHANGED <<abis, input>>

\* time.sleep(1); count += 1
sleep ==
    /\ last.op = "wait_for_transaction"
    /\ last.pc = "sleep"
    /\ last' = [last EXCEPT !.sleeps = @ + 1, !.count = @ + 1, !.pc = "poll"]
    /\ UNCHANGED <<abis, input>>

\* response = client.get(.../transactions/by_hash/<txn_hash>); assert
\* "success" in response.json() and response.json()["success"]; return
get_by_hash(response) ==
    /\ last.op = "wait_for_transaction"
    /\ last.pc = "fetch"
    /\ last' = [last EXCEPT
                  !.fetched = TRUE,
                  !.response = response,
                  !.returned = (response = "success"),
                  !.error = IF response = "success" THEN "none" ELSE "not success",
                  !.pc = "done"]
    /\ UNCHANGED <<abis, input>>

NextWait ==
    \/ \E answer \in PendingAnswers : transaction_pending(answer)
    \/ sleep
    \/ \E response \in Responses : get_by_hash(response)

\* the method runs on: a request is answered, a sleep ends
SpecWait == InitWait /\ [][NextWait]_vars /\ WF_vars(NextWait)

----------------------------------------------------------------------------
(* Properties *)

\* a descriptor file the scan reads: "*.abi" inside a module subdirectory
Scanned(file) == file.is_dir /\ file.ext = "abi"

\* the whole record of a function whose parameter types are all supported
Complete(file) == file.cut = FullLen(file.abi) /\ Supported(file.abi)

DecodableFile(file) == Scanned(file) /\ Complete(file)
FailingFile(file) == Scanned(file) /\ ~Complete(file)

DecodedAt(tree) == {i \in 1..Len(tree.files) : DecodableFile(tree.files[i])}
FailedAt(tree) == {i \in 1..Len(tree.files) : FailingFile(tree.files[i])}

\* module_name::function_name
NameKey(abi) == abi.module.name \o <<58, 58>> \o abi.name

FileName(file) == [stem |-> file.stem, ext |-> file.ext]

ScanDone == last.op = "compile" /\ last.scanned

\* C1: the scan inside compile() is never ended by a descriptor file that
\* fails to decode: it completes, the registry holds an entry under
\* module::function for every file that decodes, every entry is the whole
\* descriptor of such a file (nothing of a failed file), and exactly one
\* "Decode <file> fail" line is printed per failed file, in scan order.
C1_ScanToleratesBadFiles ==
    ScanDone =>
        LET files == last.tree.files
            failed == SelectSeq(files, FailingFile) IN
        /\ last.status = "completed"
        /\ \A i \in DecodedAt(last.tree) : NameKey(files[i].abi) \in DOMAIN abis
        /\ \A k \in DOMAIN abis : \E i \in DecodedAt(last.tree) : abis[k] = files[i].abi
        /\ Len(last.diag) = Cardinality(FailedAt(last.tree))
        /\ last.diag = [j \in 1..Len(failed) |-> FileName(failed[j])]

\* a scan that met a file cut in the middle of its record next to one that decodes
C1_Witness ==
    /\ ScanDone
    /\ last.status = "completed"
    /\ DecodedAt(last.tree) # {}
    /\ \E i \in FailedAt(last.tree) :
          /\ last.tree.files[i].cut > 0
          /\ last.tree.files[i].cut < FullLen(last.tree.files[i].abi)
    /\ DOMAIN abis # {}

IsCall == last.op \in {"submit_bcs_transaction", "custom_submit_transaction"}

NumNamed == Cardinality(DOMAIN last.kwargs)

Declared == Len(last.abi.args)

MissingNames == {i \in 1..Declared : last.abi.args[i].name \notin DOMAIN last.kwargs}

ArityErrors == {"ty_args error", "args error"}

\* C2: a call with a wrong number of type arguments, or with a number of
\* positional values other than the number of declared parameters, fails
\* with the arity error; a named call that lacks a declared parameter name
\* fails with "Param <name> not found".
C2_ArityEnforcement ==
    IsCall =>
        /\ Len(last.ty_args) # Len(last.abi.ty_args) => last.error \in ArityErrors
        /\ (Len(last.args) > 0 /\ Len(last.args) # Declared) => last.error \in ArityErrors
        /\ (/\ Len(last.ty_args) = Len(last.abi.ty_args)
            /\ Len(last.args) = 0
            /\ NumNamed > 0
            /\ MissingNames # {}) => last.error = "Param not found"

PastPreconditions == IsCall /\ last.error \notin ArityErrors

\* C3: a call gets past the precondition checks only when exactly one of
\* the two forms is supplied and that form has one entry per declared
\* parameter.
C3_ExactlyOneForm ==
    PastPreconditions =>
        \/ NumNamed = 0 /\ Len(last.args) = Declared
        \/ Len(last.args) = 0 /\ NumNamed = Declared

Coerced == {i \in 1..Len(last.events) : last.events[i].e = "coerce"}

\* C4: the preconditions are checked before the first value is coerced: a
\* named call that lacks a parameter name fails with the missing-argument
\* error and has coerced nothing.
C4_ChecksBeforeCoercion ==
    (PastPreconditions /\ NumNamed > 0 /\ MissingNames # {}) =>
        /\ last.error = "Param not found"
        /\ Coerced = {}

\* the raw value the call supplies for the i-th declared parameter
SuppliedFor(i) ==
    IF NumNamed > 0 THEN last.kwargs[last.abi.args[i].name] ELSE last.args[i]

\* the typed value of class type_tag made from a raw value
ExpectedValue(type_tag, raw) ==
    IF type_tag = "StructTag"
    THEN Tag("StructTag", [address |-> Address(1), module |-> <<109>>, name |-> <<83>>])
    ELSE IF type_tag \in VectorTags
    THEN Tag(type_tag, [j \in 1..Len(raw.val) |-> Tag(ElementTag(type_tag), raw.val[j])])
    ELSE Tag(type_tag, raw.val[1])

\* C5: after a successful bind in submit_bcs_transaction the bound list has
\* one element per declared parameter, in declaration order, the i-th made
\* from the raw value supplied for the i-th parameter (by position or by
\* name) with the i-th declared type class, and the payload carries the
\* encoded arguments in that order.
C5_BoundInDeclarationOrder ==
    (last.op = "submit_bcs_transaction" /\ last.bound) =>
        /\ Len(last.normal_args) = Declared
        /\ \A i \in 1..Declared :
              /\ last.normal_args[i].abi = last.abi.args[i]
              /\ last.normal_args[i].value.variant = last.abi.args[i].type_tag
              /\ last.normal_args[i].value =
                    ExpectedValue(last.abi.args[i].type_tag, SuppliedFor(i))
        /\ last.built =>
              /\ Len(last.payload.args) = Declared
              /\ \A i \in 1..Declared :
                    last.payload.args[i] = serialize(last.normal_args[i].value)

\* a named call of g(a: u8, b: struct) whose payload was built
C5_Witness ==
    /\ last.op = "submit_bcs_transaction"
    /\ last.bound
    /\ last.built
    /\ NumNamed = 2
    /\ Len(last.normal_args) = 2

\* C6: round trip: deserializing what v.serialize wrote, with the
\* deserialize of v's own variant, gives a value of that variant equal to v.
C6_RoundTrip ==
    last.op = "round_trip" =>
        /\ last.result.ok
        /\ last.result.val.variant = input.tv.variant
        /\ last.result.val = input.tv

ScalarOfDiscriminant(d) ==
    CASE d = 0 -> "BoolTag" [] d = 1 -> "U8Tag" [] d = 2 -> "U64Tag"
      [] d = 3 -> "U128Tag" [] d = 4 -> "AccountAddressTag" [] d = 7 -> "StructTag"

VectorOfDiscriminant(d) ==
    CASE d = 0 -> "VectorBoolTag" [] d = 1 -> "VectorU8Tag" [] d = 2 -> "VectorU64Tag"
      [] d = 3 -> "VectorU128Tag" [] d = 4 -> "VectorAccountAddressTag"
      [] d = 7 -> "VectorStructTag"

ScalarDiscriminants == {0, 1, 2, 3, 4, 7}

\* C7: ArgumentABI.deserialize reads the name, one discriminant, and a
\* second one exactly when the first is VECTOR (6); it returns the class
\* of the six scalar and six vector-of-scalar types and raises for SIGNER
\* (5), vector of vector, and any unknown discriminant.
C7_ArgumentDecode ==
    last.op = "ArgumentABI.deserialize" =>
        LET after == SubSeq(input.data, 3, Len(input.data))
            r == last.result IN
        IF after # <<>> /\ after[1] \in ScalarDiscriminants
        THEN /\ r.ok
             /\ r.val = [name |-> <<97>>, type_tag |-> ScalarOfDiscriminant(after[1])]
             /\ r.pos = 3
        ELSE IF Len(after) >= 2 /\ after[1] = 6 /\ after[2] \in ScalarDiscriminants
        THEN /\ r.ok
             /\ r.val = [name |-> <<97>>, type_tag |-> VectorOfDiscriminant(after[2])]
             /\ r.pos = 4
        ELSE ~r.ok

\* a vector<struct> parameter decoded from a record with a trailing byte
C7_Witness ==
    /\ last.op = "ArgumentABI.deserialize"
    /\ last.result.ok
    /\ last.result.val.type_tag = "VectorStructTag"
    /\ Len(input.data) = 5

BuildDone == last.op = "compile" /\ last.status = "completed"

\* the decoded file that comes last in scan order among those with the key of file i
LastWithKeyOf(tree, i) ==
    CHOOSE j \in DecodedAt(tree) :
        /\ NameKey(tree.files[j].abi) = NameKey(tree.files[i].abi)
        /\ \A m \in DecodedAt(tree) :
              NameKey(tree.files[m].abi) = NameKey(tree.files[i].abi) => m <= j

\* C8: the registry key is module_name::function_name, without the module
\* address; when several decoded files have the same key the registry holds
\* one entry for it, the descriptor decoded last, and the collision prints
\* nothing.
C8_LastSeenOverwrites ==
    BuildDone =>
        LET files == last.tree.files IN
        /\ DOMAIN abis = {NameKey(files[i].abi) : i \in DecodedAt(last.tree)}
        /\ \A i \in DecodedAt(last.tree) :
              abis[NameKey(files[i].abi)] = files[LastWithKeyOf(last.tree, i)].abi
        /\ Len(last.diag) = Cardinality(FailedAt(last.tree))

\* 0x1::m::f and 0x2::m::f both decoded: one entry
C8_Witness ==
    /\ BuildDone
    /\ \E i, j \in DecodedAt(last.tree) :
          /\ i < j
          /\ NameKey(last.tree.files[i].abi) = NameKey(last.tree.files[j].abi)
          /\ last.tree.files[i].abi # last.tree.files[j].abi
    /\ Cardinality(DOMAIN abis) = 1

\* C9: after a compile() that completed, the registry holds exactly what
\* the files of that scan produce: a key registered before and not produced
\* by this scan is gone.
C9_RebuiltWholesale ==
    BuildDone =>
        /\ \A k \in DOMAIN abis :
              \E i \in DecodedAt(last.tree) : NameKey(last.tree.files[i].abi) = k
        /\ ~last.tree.exists => abis = EmptyAbis
        /\ \A k \in last.dropped :
              /\ k \notin DOMAIN abis
              /\ \A i \in DecodedAt(last.tree) : NameKey(last.tree.files[i].abi) # k

\* a recompilation in which the file of a registered key no longer decodes
C9_Witness ==
    /\ BuildDone
    /\ \E i \in FailedAt(last.tree) : NameKey(last.tree.files[i].abi) \in last.dropped
    /\ DOMAIN abis # {}

ReadOnlyOps ==
    {"__getitem__", "submit_bcs_transaction", "custom_submit_transaction",
     "wait_for_transaction"}

\* C10: __getitem__, submit_bcs_transaction, custom_submit_transaction and
\* wait_for_transaction, failing or not, leave the registry and every
\* descriptor in it as they were; the registry changes only in compile().
C10_RegistryReadOnlyAfterBuild ==
    [][/\ last'.op \in ReadOnlyOps => abis' = abis
       /\ abis' # abis => last'.op = "compile"]_vars

\* a registered function has been called, successfully
C10_Witness ==
    /\ IsCall
    /\ last.error = "none"
    /\ \E k \in DOMAIN abis : abis[k] = last.abi
    /\ Cardinality(DOMAIN abis) = 2

WaitDone == last.pc = "done"

WaitSafe ==
    /\ last.polls <= 21
    /\ last.sleeps <= 20
    /\ last.sleeps <= last.polls
    /\ (last.pc = "done" /\ last.answer = "pending") =>
          /\ last.polls = 21 /\ last.sleeps = 20
          /\ last.error = "timed out"
          /\ ~last.fetched /\ ~last.returned
    /\ (last.answer = "pending" /\ last.sleeps = 20 /\ last.pc # "poll") =>
          last.pc = "done" /\ last.error = "timed out"
    /\ last.fetched =>
          /\ last.answer = "settled"
          /\ last.returned <=> last.response = "success"
          /\ ~last.returned => last.error = "not success"
    /\ last.returned => last.fetched /\ last.error = "none" /\ last.pc = "done"
    /\ (last.pc = "done" /\ last.answer = "settled") => last.fetched

\* C11: wait_for_transaction terminates whatever the node answers, after at
\* most 21 polls and 20 sleeps; still pending on the poll after the 20th
\* sleep it fails with "timed out" and fetches nothing; once the
\* transaction is no longer pending it is fetched and returned only when
\* the response carries success = true, and the call fails otherwise.
C11_WaitTerminates == <>WaitDone /\ []WaitSafe

\* timed out on the 21st poll, after 20 sleeps, nothing fetched
C11_Witness ==
    /\ last.op = "wait_for_transaction"
    /\ last.pc = "done"
    /\ last.error = "timed out"
    /\ last.polls = 21
    /\ last.sleeps = 20
    /\ ~last.fetched

Submissions == Cardinality({i \in 1..Len(last.requests) : last.requests[i] = "submit"})

\* the steps of the binding that the call went through
Steps(e) == {i \in 1..Len(last.events) : last.events[i].e = e}

\* both count checks passed, every name looked up (named form) and every
\* declared parameter coerced
AllChecked ==
    /\ last.bound
    /\ Steps("check_ty_args") # {} /\ Steps("check_args") # {}
    /\ Cardinality(Steps("coerce")) = Declared
    /\ NumNamed > 0 => Cardinality(Steps("check_name")) = Declared
    /\ Len(last.normal_args) = Declared
    /\ Len(last.ty_args) = Len(last.abi.ty_args)

\* the call ended before the submission request: in the assembly of the
\* payload, in the sequence-number fetch or in the encode_submission request
EndedBeforeSubmission ==
    \/ last.error \in {"ty_args parse", "TypeError"}
    \/ last.error = "ApiError" /\ last.requests[Len(last.requests)] # "submit"

\* no request unless the binding succeeded; none after a failed binding
NoRequestUnlessBound ==
    /\ last.requests # <<>> => AllChecked
    /\ ~last.bound => last.requests = <<>> /\ Submissions = 0 /\ last.submitted = 0
    /\ \A i \in 1..Len(last.requests) :
          /\ last.requests[i] = "submit" =>
                i > 1 /\ last.requests[1] = "sequence_number"
          /\ last.requests[i] = "wait" => i > 1 /\ last.requests[i - 1] = "submit"

\* C12 as stated: no request to the node unless every check and coercion of
\* the binding succeeded; a call that fails in the binding submits nothing,
\* and a call that passes submits exactly one transaction.
C12_ExactlyOneSubmission ==
    IsCall =>
        /\ NoRequestUnlessBound
        /\ last.bound => Submissions = 1

\* C12 (amended): no request to the node unless every check and coercion of
\* the binding succeeded; a call that fails in the binding submits nothing;
\* a call that passes makes at most one submission request, exactly one
\* unless it ends before the submission (payload assembly, sequence-number
\* fetch or encode_submission failing), and never a second one.
C12_BindBeforeSubmit ==
    IsCall =>
        /\ NoRequestUnlessBound
        /\ Submissions <= 1
        /\ last.submitted <= Submissions
        /\ last.bound => (Submissions = 1 <=> ~EndedBeforeSubmission)

\* a bound call whose submission was made once and then polled
C12_Witness ==
    /\ IsCall
    /\ last.op = "custom_submit_transaction"
    /\ AllChecked
    /\ Declared = 2
    /\ last.requests = <<"sequence_number", "encode_submission", "submit", "wait">>
    /\ last.submitted = 1

\* a call in named form whose payload was assembled
NamedCall == IsCall /\ last.built /\ NumNamed > 0 /\ Len(last.args) = 0

\* the same raw values in positional form: v_i = kwargs[name_i]
PositionalOf == [i \in 1..Declared |-> last.kwargs[last.abi.args[i].name]]

\* the payload argument list the method assembles from a bound list
PayloadArgs(method, abi, ty_args, normal_args) ==
    IF method = "submit_bcs_transaction"
    THEN bcs_payload(abi, <<>>, normal_args).args
    ELSE custom_payload(abi, ty_args, normal_args).args

\* C13: for the same descriptor, type arguments and raw values, the call in
\* positional form and the call in named form give the same payload
\* argument list, in submit_bcs_transaction and in custom_submit_transaction.
C13_PositionalNamedEquivalence ==
    NamedCall =>
        LET st == bind(last.op, last.abi, PositionalOf, <<>>, last.ty_args) IN
        /\ st.error = "none"
        /\ PayloadArgs(last.op, last.abi, last.ty_args, st.normal_args)
              = last.payload.args

====
